---- MODULE Spec2Model ----
(***************************************************************************)
(* A model of the SWAN request handlers of dmarti/swan-go:                 *)
(*   handlerDecodeAsJSON.go  decrypt -> decode -> sign (OWID) -> expire    *)
(*   fetch handler           access-node discovery and the create-URL call *)
(*   removeHTMLWhiteSpace    the HTML template normaliser                  *)
(* Every request is served on its own goroutine; the only state shared by  *)
(* requests is services.accessNode, read and written without a lock.       *)
(***************************************************************************)
EXTENDS Integers, Sequences, FiniteSets, TLC

(* ------------------------------ bounds -------------------------------- *)
\* requests in flight at once (each slot is reused for later requests)
MaxReqs == 2
\* the wall clock runs from 0 to MaxClock (seconds)
MaxClock == 2
\* config.Timeout ranges over 0..MaxTimeout (seconds)
MaxTimeout == 1
\* a decrypted ResultSet holds up to MaxResults pairs
MaxResults == 2
\* the HTML strings given to removeHTMLWhiteSpace have up to MaxLen bytes
MaxLen == 4

(* ------------------------- program constants -------------------------- *)
StatusOK == 200
StatusUnauthorized == 401
StatusUnprocessableEntity == 422
StatusInternalServerError == 500
StatusBadRequest == 400
\* the size of the digest sha1.New() produces
SHA1Size == 20

Reqs == 1 .. MaxReqs

VARIABLES
    accessNode,   \* services.accessNode: the cached access node host
    Debug,        \* config.Debug
    Timeout,      \* config.Timeout, in seconds
    clock,        \* time.Now().UTC(), in seconds
    req,          \* per request goroutine: position, locals, response
    html,         \* the string given to removeHTMLWhiteSpace
    once,         \* removeHTMLWhiteSpace(html)
    twice,        \* removeHTMLWhiteSpace(once)
    wsStep        \* how many times the normaliser has been applied

vars == <<accessNode, Debug, Timeout, clock, req, html, once, twice, wsStep>>

(* ------------------------ removeHTMLWhiteSpace ------------------------ *)
SP == " "
CR == "\r"
LF == "\n"
TAB == "\t"
\* the bytes an HTML string is made of: the four white-space bytes and two
\* ordinary ones
Chars == {SP, CR, LF, TAB, "a", "b"}

\* the test of lines 266 and 270 for the rune at (1-based) position i:
\* not a control character, and not a space that follows a space of the INPUT
writesRune(h, i) ==
    /\ h[i] # CR /\ h[i] # LF /\ h[i] # TAB
    /\ (i = 1 \/ h[i] # SP \/ h[i - 1] # SP)

RECURSIVE writeFrom(_, _)
\* the loop of lines 263-274 from position i on: what sb receives
writeFrom(h, i) ==
    IF i > Len(h) THEN <<>>
    ELSE (IF writesRune(h, i) THEN <<h[i]>> ELSE <<>>) \o writeFrom(h, i + 1)

removeHTMLWhiteSpace(h) == writeFrom(h, 1)

RECURSIVE StringsUpTo(_)
StringsUpTo(n) ==
    IF n = 0 THEN {<<>>}
    ELSE LET S == StringsUpTo(n - 1)
         IN  S \cup {Append(s, c) : s \in {x \in S : Len(x) = n - 1}, c \in Chars}

(* ------------------------------ url.Values ---------------------------- *)
\* the parameter names that occur; "cbid<t" stands for fmt.Sprintf("cbid<%s", t)
\* with t the date three months from now
Keys == {"allow<t", "cbid<t", "email<t", "table"}
\* Values.Encode writes the keys in sorted order
KeyOrder == <<"allow<t", "cbid<t", "email<t", "table">>
EmptyValues == [k \in Keys |-> <<>>]

valuesSet(q, k, v) == [q EXCEPT ![k] = <<v>>]
valuesAdd(q, k, v) == [q EXCEPT ![k] = Append(@, v)]
valuesDel(q, k) == [q EXCEPT ![k] = <<>>]

RECURSIVE encodeFrom(_, _)
\* Values.Encode: one key=value pair per value, keys in sorted order
encodeFrom(q, n) ==
    IF n > Len(KeyOrder) THEN <<>>
    ELSE LET k == KeyOrder[n]
         IN  [i \in 1 .. Len(q[k]) |-> <<k, q[k][i]>>] \o encodeFrom(q, n + 1)

valuesEncode(q) == encodeFrom(q, 1)

\* what uuid.New().String() may return
UUIDs == {"uuid-1"}

\* the parameter sets a publisher may send to fetch: `table` absent or set
BaseQueries == {[EmptyValues EXCEPT !["table"] = t] : t \in {<<>>, <<"foo">>}}

\* the parameter sets createStorageOperationURL may be given: `table` absent,
\* set, set twice, and other parameters present
AnyQueries ==
    {[EmptyValues EXCEPT !["table"] = t, !["cbid<t"] = c] :
        t \in {<<>>, <<"foo">>, <<"foo", "bar">>, <<"swan">>, <<"swan", "swan">>},
        c \in {<<>>, <<"old">>}}

\* the parameter-injection functions a caller may pass: the one of the fetch
\* handler (lines 62-67), and callers that leave, set, add or delete `table`
Injections == {"fetch", "none", "setTable", "addTable", "delTable"}

inject(fn, q, uuid) ==
    CASE fn = "fetch" ->
           valuesSet(valuesSet(valuesSet(q, "cbid<t", uuid), "email<t", ""),
                     "allow<t", "")
      [] fn = "setTable" -> valuesSet(q, "table", "evil")
      [] fn = "addTable" -> valuesAdd(q, "table", "evil")
      [] fn = "delTable" -> valuesDel(q, "table")
      [] OTHER -> q

composeQueryAdd(q, fn, uuid) ==
    valuesEncode(valuesAdd(inject(fn, q, uuid), "table", "swan"))

\* lines 112-119: fn(q), then q.Set("table", "swan"), then u.RawQuery = q.Encode()
composeQuery(q, fn, uuid) ==
    valuesEncode(valuesSet(inject(fn, q, uuid), "table", "swan"))

(* ------------------------------- hosts -------------------------------- *)
NoHost == ""
Hosts == {"node1", "node2"}
\* what an unsynchronised read of the string may give while it is written
Torn == "torn"
AccessNodes == Hosts \cup {NoHost}

\* swift.GetAccessNode returns (an, err): a host, or no host with or without
\* an error
Discoveries ==
    [an : AccessNodes, err : {FALSE}] \cup [an : {NoHost}, err : {TRUE}]

\* line 95: the only discovery result createStorageOperationURL rejects
discoveryFailed(d) == d.err /\ d.an = NoHost

\* http.Get and the reading of its response (lines 105-112, 122-134): a URL
\* without a host never gets a response; a failed ReadAll is returned to the
\* caller as a failed Get is
httpGet(host) ==
    IF host = NoHost THEN {"neterr"} ELSE {"ok", "status", "neterr"}

(* ------------------------------- errors ------------------------------- *)
ErrNotAuthorized == "Not authorized"
ErrParseForm == "ParseForm failed"
ErrNoAccessNode ==
    "An access node has not been created for the 'swan-net' network. Use http[s]://[domain]/swift/register to start the network."
ErrTransport == "Get: transport error"
ErrResponse == "API call returned a status other than 200"
ErrDecode == "DecodeResults failed"
ErrJSON == "json Encode failed"
ErrWrite == "Write failed"
ErrValidate == "common parameters invalid"
NoError == ""

getError(outcome) ==
    CASE outcome = "neterr" -> ErrTransport
      [] outcome = "status" -> ErrResponse
      [] OTHER -> NoError

(* ------------------------------ responses ----------------------------- *)
\* http.Error(w, msg, code): the status and msg followed by a newline. A write
\* after the first adds to the body; the status of the response is the first.
httpError(w, msg, code, err, via) ==
    Append(w, [status |-> code, body |-> msg \o LF, err |-> err, via |-> via])

\* lines 216-228: the error text is written whatever config.Debug is
returnAPIError(w, dbg, err, code) ==
    httpError(w, err, code, err, "returnAPIError")

\* lines 230-245
returnRequestError(w, dbg, err, code) ==
    httpError(w, IF dbg THEN err ELSE "", code, err, "returnRequestError")

\* w.Write(b) of a successful response
writeBody(w, b) ==
    Append(w, [status |-> StatusOK, body |-> b, err |-> NoError, via |-> "Write"])

\* the common-parameter validator: on failure it writes an error response and
\* tells its caller to abort; on success it writes nothing
validateCommon(w, dbg, ok) ==
    IF ok THEN w ELSE returnRequestError(w, dbg, ErrValidate, StatusBadRequest)

\* s.getAccessAllowed(w, r) == false
accessDeniedNever(allowed) == FALSE

accessDenied(allowed) == allowed = FALSE

(* ------------------------- results and OWIDs -------------------------- *)
\* r.Host, the domain the Creator is looked up for
Domain == "swan.example"

\* []byte(s): the bytes of a string
bytesOf(s) == [hashed |-> FALSE, of |-> s, len |-> Len(s)]

\* lines 142-146: the SHA-1 digest of the string, a one-way value of 20 bytes
createSID(s) == [hashed |-> TRUE, of |-> s, len |-> SHA1Size]

\* a Pair's Value as DecodeResults gives it: the plain string
plain(s) == [form |-> "plain", creator |-> "", payload |-> bytesOf(s)]

\* what GetCreator, Sign and AsBase64 may do (lines 118-137)
OwidOutcomes == {"ok", "GetCreator failed", "No creator", "Sign failed", "AsBase64 failed"}

\* lines 115-138: the base 64 form of the OWID the domain's creator signs over v
encodeAsOWID(outcome, v) ==
    IF outcome = "ok"
    THEN [err |-> NoError, val |-> [form |-> "owid", creator |-> Domain, payload |-> v]]
    ELSE [err |-> outcome, val |-> [form |-> "plain", creator |-> "", payload |-> bytesOf("")]]

encodePairKeepEmail(outcome, p) ==
    [p EXCEPT !.Value = encodeAsOWID(outcome, bytesOf(p.Value.payload.of)).val]

\* lines 67-72: one iteration of the loop that changes the values to OWIDs
encodePair(outcome, p) ==
    IF p.Key = "email"
    THEN [p EXCEPT !.Key = "sid",
                   !.Value = encodeAsOWID(outcome, createSID(p.Value.payload.of)).val]
    ELSE [p EXCEPT !.Value = encodeAsOWID(outcome, bytesOf(p.Value.payload.of)).val]

\* lines 66-77 when no encodeAsOWID call fails: every pair is replaced in place
encodeAll(outcome, ps) == [i \in 1 .. Len(ps) |-> encodePair(outcome, ps[i])]

expiryNoClock(now, timeout) == timeout

\* line 81: time.Now().UTC().Add(time.Second * s.config.Timeout)
expiry(now, timeout) == now + timeout

\* an Expires no stamping can produce
FarFuture == MaxClock + MaxTimeout + 10

\* the pairs a decrypted blob may hold
Pairs ==
    {[Key |-> "email", Value |-> plain("a@b.com"), Expires |-> FarFuture],
     [Key |-> "pref", Value |-> plain("on"), Expires |-> 0]}

RECURSIVE SeqsUpTo(_, _)
SeqsUpTo(S, n) ==
    IF n = 0 THEN {<<>>}
    ELSE LET T == SeqsUpTo(S, n - 1)
         IN  T \cup {Append(s, x) : s \in {y \in T : Len(y) = n - 1}, x \in S}

\* what swift.DecodeResults may return as results.Values
ResultSets == SeqsUpTo(Pairs, MaxResults)

(* ------------------------------ requests ------------------------------ *)
IdleReq ==
    [pc |-> "idle", kind |-> "none", allowed |-> TRUE, validFailed |-> FALSE,
     sawEmpty |-> FALSE, emptyNoErr |-> FALSE, an |-> NoHost,
     q |-> EmptyValues, fn |-> "none", retURL |-> "", retErr |-> NoError,
     calls |-> <<>>, resp |-> <<>>, in |-> <<>>, results |-> <<>>, i |-> 0,
     t0 |-> 0, T |-> 0]

\* an outbound call as the transport sees it
call(kind, host, query) == [kind |-> kind, host |-> host, query |-> query]

\* another goroutine is at the assignment of line 101
writing(r) == \E o \in Reqs : o # r /\ req[o].pc = "store"

\* an unsynchronised read of s.accessNode (lines 93 and 107 of the fetch file,
\* line 94 of decrypt): the value, or a torn one while another goroutine writes
readAccessNode(r) == {accessNode} \cup (IF writing(r) THEN {Torn} ELSE {})

\* the unsynchronised write of line 101
writeAccessNode(r, an) == {an} \cup (IF writing(r) THEN {Torn} ELSE {})

\* the status the client receives: that of the first write
status(r) == IF req[r].resp = <<>> THEN 0 ELSE req[r].resp[1].status

(* ------------------------------- Init --------------------------------- *)
\* a freshly started service: nothing cached, no request in flight
Init ==
    /\ accessNode = NoHost
    /\ Debug \in BOOLEAN
    /\ Timeout \in 0 .. MaxTimeout
    /\ clock = 0
    /\ req = [r \in Reqs |-> IdleReq]
    /\ html = <<>> /\ once = <<>> /\ twice = <<>> /\ wsStep = 0

(* --------------------------- the fetch handler ------------------------ *)
\* handlerFetch, lines 68-83, on the return of createStorageOperationURL: the
\* error, or the URL as the response body. Any other caller just returns.
fetchReturn(rec, url, err, writeOk, dbg) ==
    LET ret == [rec EXCEPT !.pc = "done", !.retURL = url, !.retErr = err,
                           !.an = NoHost]
    IN  IF rec.kind # "fetch" THEN ret
        ELSE IF err # NoError
        THEN [ret EXCEPT !.resp = returnAPIError(@, dbg, err,
                                                 StatusInternalServerError)]
        ELSE IF writeOk THEN [ret EXCEPT !.resp = writeBody(@, url)]
        ELSE [ret EXCEPT !.resp = returnAPIError(@, dbg, ErrWrite,
                                                 StatusInternalServerError)]

\* handlerFetch, lines 31-59: the access check, ParseForm, the copy of the
\* parameters, validateCommon (its result is not looked at), and the call of
\* createStorageOperationURL with the injection function of lines 62-67
handlerFetch(r) ==
    /\ req[r].pc = "idle"
    /\ \E allowed \in BOOLEAN, parseOk \in BOOLEAN, validOk \in BOOLEAN,
          q \in BaseQueries :
         LET base == [IdleReq EXCEPT !.kind = "fetch", !.allowed = allowed]
         IN  req' = [req EXCEPT ![r] =
                 IF accessDenied(allowed)
                 THEN [base EXCEPT !.pc = "done",
                          !.resp = returnAPIError(<<>>, Debug, ErrNotAuthorized,
                                                  StatusUnauthorized)]
                 ELSE IF ~parseOk
                 THEN [base EXCEPT !.pc = "done",
                          !.resp = returnAPIError(<<>>, Debug, ErrParseForm,
                                                  StatusInternalServerError)]
                 ELSE [base EXCEPT !.pc = "cso", !.q = q, !.fn = "fetch",
                          !.validFailed = ~validOk,
                          !.resp = validateCommon(<<>>, Debug, validOk)]]
    /\ UNCHANGED <<accessNode, Debug, Timeout, clock, html, once, twice, wsStep>>

\* createStorageOperationURL, line 93: the cache is read; when it is empty
\* swift.GetAccessNode is called
csoCheck(r) ==
    /\ req[r].pc = "cso"
    /\ \E v \in readAccessNode(r) :
         req' = [req EXCEPT ![r] =
             IF v = NoHost
             THEN [@ EXCEPT !.pc = "discover", !.sawEmpty = TRUE,
                            !.calls = Append(@, call("discover", NoHost, <<>>))]
             ELSE [@ EXCEPT !.pc = "create"]]
    /\ UNCHANGED <<accessNode, Debug, Timeout, clock, html, once, twice, wsStep>>

\* createStorageOperationURL, lines 94-100: GetAccessNode returns; an error
\* with an empty host is the one result that ends the call
csoDiscover(r) ==
    /\ req[r].pc = "discover"
    /\ \E d \in Discoveries :
         req' = [req EXCEPT ![r] =
             IF discoveryFailed(d)
             THEN fetchReturn(@, "", ErrNoAccessNode, TRUE, Debug)
             ELSE [@ EXCEPT !.pc = "store", !.an = d.an,
                            !.emptyNoErr = (d.an = NoHost /\ ~d.err)]]
    /\ UNCHANGED <<accessNode, Debug, Timeout, clock, html, once, twice, wsStep>>

\* createStorageOperationURL, line 101: s.accessNode = an
csoStore(r) ==
    /\ req[r].pc = "store"
    /\ accessNode' \in writeAccessNode(r, req[r].an)
    /\ req' = [req EXCEPT ![r].pc = "create", ![r].an = NoHost]
    /\ UNCHANGED <<Debug, Timeout, clock, html, once, twice, wsStep>>

\* createStorageOperationURL, lines 105-136: the host is read from the cache
\* again, the query is composed, the GET is made and its result returned
csoCreate(r) ==
    /\ req[r].pc = "create"
    /\ \E host \in readAccessNode(r), uuid \in UUIDs, writeOk \in BOOLEAN :
         \E outcome \in httpGet(host) :
             LET sent == [req[r] EXCEPT !.calls = Append(@, call("create", host,
                                   composeQuery(req[r].q, req[r].fn, uuid)))]
             IN  req' = [req EXCEPT ![r] =
                     fetchReturn(sent,
                                 IF outcome = "ok" THEN "next-hop-url" ELSE "",
                                 getError(outcome), writeOk, Debug)]
    /\ UNCHANGED <<accessNode, Debug, Timeout, clock, html, once, twice, wsStep>>

(* ----------------------- the decode-as-json handler ------------------- *)
\* decrypt, lines 91-113: the URL is built on s.accessNode as it is, and the
\* GET is made
decryptCall(host) ==
    call("decrypt", host, <<<<"accessKey", "key">>, <<"data", "blob">>>>)

\* handlerDecodeAsJSON, lines 31-77: the access check, ParseForm, decrypt,
\* DecodeResults and the loop that changes every value to an OWID
handlerDecodeAsJSON(r) ==
    /\ req[r].pc = "idle"
    /\ \E allowed \in BOOLEAN, parseOk \in BOOLEAN, decodeOk \in BOOLEAN,
          host \in readAccessNode(r), ps \in ResultSets, owid \in OwidOutcomes :
         \E outcome \in httpGet(host) :
             LET base == [IdleReq EXCEPT !.kind = "decode", !.allowed = allowed,
                                         !.t0 = clock, !.T = clock]
                 sent == [base EXCEPT !.calls = <<decryptCall(host)>>]
             IN  req' = [req EXCEPT ![r] =
                     IF accessDenied(allowed)
                     THEN [base EXCEPT !.pc = "done",
                              !.resp = returnAPIError(<<>>, Debug, ErrNotAuthorized,
                                                      StatusUnauthorized)]
                     ELSE IF ~parseOk
                     THEN [base EXCEPT !.pc = "done",
                              !.resp = returnAPIError(<<>>, Debug, ErrParseForm,
                                                      StatusInternalServerError)]
                     ELSE IF outcome # "ok"
                     THEN [sent EXCEPT !.pc = "done",
                              !.resp = returnAPIError(<<>>, Debug, getError(outcome),
                                                      StatusUnprocessableEntity)]
                     ELSE IF ~decodeOk
                     THEN [sent EXCEPT !.pc = "done",
                              !.resp = returnAPIError(<<>>, Debug, ErrDecode,
                                                      StatusUnprocessableEntity)]
                     ELSE IF ps # <<>> /\ owid # "ok"
                     THEN [sent EXCEPT !.pc = "done",
                              !.resp = returnAPIError(<<>>, Debug, owid,
                                                      StatusInternalServerError)]
                     ELSE [sent EXCEPT !.pc = "expire", !.in = ps,
                              !.results = encodeAll(owid, ps), !.i = 1]]
    /\ UNCHANGED <<accessNode, Debug, Timeout, clock, html, once, twice, wsStep>>

\* handlerDecodeAsJSON, lines 80-82: one iteration of the expiry loop
stampExpiry(r) ==
    /\ req[r].pc = "expire" /\ req[r].i <= Len(req[r].results)
    /\ req' = [req EXCEPT ![r].results[req[r].i].Expires = expiry(clock, Timeout),
                          ![r].i = @ + 1]
    /\ UNCHANGED <<accessNode, Debug, Timeout, clock, html, once, twice, wsStep>>

\* handlerDecodeAsJSON, lines 84-88: the results are written as JSON
handlerDecodeRespond(r) ==
    /\ req[r].pc = "expire" /\ req[r].i > Len(req[r].results)
    /\ \E jsonOk \in BOOLEAN :
         req' = [req EXCEPT ![r] =
             IF jsonOk
             THEN [@ EXCEPT !.pc = "done", !.T = clock, !.resp = writeBody(@, "json")]
             ELSE [@ EXCEPT !.pc = "done", !.T = clock,
                      !.resp = returnAPIError(@, Debug, ErrJSON,
                                              StatusUnprocessableEntity)]]
    /\ UNCHANGED <<accessNode, Debug, Timeout, clock, html, once, twice, wsStep>>

\* the handler has returned: the goroutine ends, and a later request is served
requestEnds(r) ==
    /\ req[r].pc = "done"
    /\ req' = [req EXCEPT ![r] = IdleReq]
    /\ UNCHANGED <<accessNode, Debug, Timeout, clock, html, once, twice, wsStep>>

\* the wall clock advances
Tick ==
    /\ clock < MaxClock
    /\ clock' = clock + 1
    /\ UNCHANGED <<accessNode, Debug, Timeout, req, html, once, twice, wsStep>>

\* createStorageOperationURL, lines 86-137
createStorageOperationURL(r) ==
    \/ csoCheck(r)
    \/ csoDiscover(r)
    \/ csoStore(r)
    \/ csoCreate(r)

fetchSteps(r) == handlerFetch(r) \/ createStorageOperationURL(r)

decodeSteps(r) ==
    \/ handlerDecodeAsJSON(r)
    \/ stampExpiry(r)
    \/ handlerDecodeRespond(r)

\* the requests of one service instance, served concurrently
Next == \E r \in Reqs : fetchSteps(r) \/ decodeSteps(r) \/ requestEnds(r)

Spec == Init /\ [][Next]_vars

(* ------------------- one decode request, running clock ---------------- *)
\* a service whose access node an earlier fetch has resolved
InitClock ==
    /\ accessNode \in Hosts
    /\ Debug \in BOOLEAN
    /\ Timeout \in 0 .. MaxTimeout
    /\ clock = 0
    /\ req = [r \in Reqs |-> IdleReq]
    /\ html = <<>> /\ once = <<>> /\ twice = <<>> /\ wsStep = 0

NextClock == Tick \/ decodeSteps(1) \/ requestEnds(1)

SpecClock == InitClock /\ [][NextClock]_vars

(* --------------- createStorageOperationURL for any caller ------------- *)
\* a caller is about to call createStorageOperationURL with a parameter set
\* and an injection function of its own
InitURL ==
    /\ accessNode \in AccessNodes
    /\ Debug \in BOOLEAN
    /\ Timeout = 0
    /\ clock = 0
    /\ \E q \in AnyQueries, fn \in Injections :
         req = [r \in Reqs |->
                   IF r = 1
                   THEN [IdleReq EXCEPT !.pc = "cso", !.kind = "caller",
                                        !.q = q, !.fn = fn]
                   ELSE IdleReq]
    /\ html = <<>> /\ once = <<>> /\ twice = <<>> /\ wsStep = 0

NextURL == createStorageOperationURL(1)

SpecURL == InitURL /\ [][NextURL]_vars

(* ------------------------ the HTML normaliser ------------------------- *)
InitWS ==
    /\ accessNode = NoHost
    /\ Debug = FALSE
    /\ Timeout = 0
    /\ clock = 0
    /\ req = [r \in Reqs |-> IdleReq]
    /\ html \in StringsUpTo(MaxLen)
    /\ once = <<>> /\ twice = <<>> /\ wsStep = 0

\* removeHTMLWhiteSpace applied to the template
normaliseOnce ==
    /\ wsStep = 0
    /\ once' = removeHTMLWhiteSpace(html)
    /\ wsStep' = 1
    /\ UNCHANGED <<accessNode, Debug, Timeout, clock, req, html, twice>>

\* removeHTMLWhiteSpace applied to its own result
normaliseTwice ==
    /\ wsStep = 1
    /\ twice' = removeHTMLWhiteSpace(once)
    /\ wsStep' = 2
    /\ UNCHANGED <<accessNode, Debug, Timeout, clock, req, html, once>>

NextWS == normaliseOnce \/ normaliseTwice

SpecWS == InitWS /\ [][NextWS]_vars

(* ============================== claims ================================ *)
createCalls(r) ==
    {i \in DOMAIN req[r].calls : req[r].calls[i].kind = "create"}

tableValues(query) == {j \in DOMAIN query : query[j][1] = "table"}

decodeOK(r) ==
    req[r].kind = "decode" /\ req[r].pc = "done" /\ status(r) = StatusOK

\* C1: when the AccessGate denies a request, in the decode-as-json and in the
\* fetch handler alike, the handler ends there: the request has made and makes
\* no outbound call (decrypt, discovery, create), the step leaves the cached
\* access node as it was, and the one response written has status 401.
C1_DenyNoSideEffect ==
    [][\A r \in Reqs :
          /\ ~req'[r].allowed =>
                /\ req'[r].pc = "done"
                /\ req'[r].calls = <<>>
                /\ Len(req'[r].resp) = 1
                /\ req'[r].resp[1].status = StatusUnauthorized
          /\ (req[r].pc = "idle" /\ ~req'[r].allowed) => accessNode' = accessNode
      ]_vars

\* C1 witness: a denied fetch and a denied decode, both answered, on a service
\* whose cache holds a host
C1_Witness ==
    /\ accessNode \in Hosts
    /\ \E r1 \in Reqs, r2 \in Reqs :
         /\ req[r1].kind = "fetch" /\ ~req[r1].allowed /\ req[r1].pc = "done"
         /\ req[r2].kind = "decode" /\ ~req[r2].allowed /\ req[r2].pc = "done"

\* C2: whatever parameters and injection function createStorageOperationURL is
\* given, the query of the create request it issues has exactly one `table`
\* parameter, and its value is "swan".
C2_TableIsSwan ==
    \A r \in Reqs : \A i \in createCalls(r) :
        LET query == req[r].calls[i].query
        IN  /\ Cardinality(tableValues(query)) = 1
            /\ \A j \in tableValues(query) : query[j][2] = "swan"

\* C2 witness: a create request was issued for a caller whose parameters held
\* two other `table` values and whose injection function added a third
C2_Witness ==
    \E r \in Reqs :
        /\ createCalls(r) # {}
        /\ req[r].q["table"] = <<"foo", "bar">>
        /\ req[r].fn = "addTable"

\* C3: when the cache is empty and discovery returns an empty host and no
\* error, createStorageOperationURL fails with the error that names the network
\* and the setup endpoint, issues no create request, and the fetch response is
\* a server error. (Stated for the requests the Validator passed.)
C3_EmptyDiscoveryFails ==
    \A r \in Reqs :
        (req[r].emptyNoErr /\ req[r].pc = "done" /\ ~req[r].validFailed) =>
            /\ req[r].retErr = ErrNoAccessNode
            /\ createCalls(r) = {}
            /\ req[r].kind = "fetch" => status(r) = StatusInternalServerError

\* C4: every error response the two handlers write has an empty body (the
\* http.Error of an empty message) when Debug is false, and the error text
\* when Debug is true.
C4_BodySuppressedInProduction ==
    \A r \in Reqs : \A i \in DOMAIN req[r].resp :
        req[r].resp[i].via = "returnAPIError" =>
            req[r].resp[i].body = (IF Debug THEN req[r].resp[i].err ELSE "") \o LF

\* C5: in every successful decode-as-json response the output has the length
\* and order of the decrypted ResultSet; a pair keyed `email` is output with key
\* `sid` and an OWID whose payload is the 20 byte digest of the email, never its
\* bytes; every other pair keeps its key and has its own bytes as the payload;
\* no output key is `email`.
C5_EmailNeverPlain ==
    \A r \in Reqs :
        decodeOK(r) =>
            /\ Len(req[r].results) = Len(req[r].in)
            /\ \A i \in DOMAIN req[r].in :
                 LET p == req[r].in[i]
                     o == req[r].results[i]
                 IN  /\ o.Key # "email"
                     /\ o.Value.form = "owid"
                     /\ o.Value.payload.of = p.Value.payload.of
                     /\ p.Key = "email" =>
                            /\ o.Key = "sid"
                            /\ o.Value.payload.hashed
                            /\ o.Value.payload.len = SHA1Size
                            /\ o.Value.payload # p.Value.payload
                     /\ p.Key # "email" =>
                            /\ o.Key = p.Key
                            /\ o.Value.payload = p.Value.payload

\* C5 witness: a successful decode of an email followed by another pair
C5_Witness ==
    \E r \in Reqs :
        /\ decodeOK(r)
        /\ Len(req[r].in) = 2
        /\ req[r].in[1].Key = "email" /\ req[r].in[2].Key = "pref"
        /\ req[r].results[1].Key = "sid"

\* C6 as claimed: every output Expires lies in [T, T + Timeout], T the clock at
\* the completion of the request.
C6_ExpiresWithinCompletionWindow ==
    \A r \in Reqs :
        decodeOK(r) =>
            \A i \in DOMAIN req[r].results :
                /\ req[r].T <= req[r].results[i].Expires
                /\ req[r].results[i].Expires <= req[r].T + Timeout

\* C6 amended: every output Expires is a clock value read while the request was
\* processed plus Timeout, so with a clock that does not run backwards it lies
\* in [T0 + Timeout, T + Timeout], T0 the clock when the request began and T
\* the clock at its completion, whatever Expires the decrypted pair carried.
C6_ExpiresWithinRequestWindow ==
    \A r \in Reqs :
        decodeOK(r) =>
            \A i \in DOMAIN req[r].results :
                /\ req[r].t0 + Timeout <= req[r].results[i].Expires
                /\ req[r].results[i].Expires <= req[r].T + Timeout

\* C6 witness: a successful decode of a pair that carried another Expires, with
\* the clock gone past the stamped Expires before the request completed
C6_Witness ==
    \E r \in Reqs :
        /\ decodeOK(r)
        /\ Len(req[r].results) >= 1
        /\ req[r].in[1].Expires = FarFuture
        /\ req[r].results[1].Expires < req[r].T
        /\ req[r].t0 > 0

\* C7: removeHTMLWhiteSpace is idempotent: applied to its own result it changes
\* nothing.
C7_Idempotent == wsStep = 2 => twice = once

\* C8: when the Validator fails, the fetch handler aborts: the request makes no
\* discovery and no create call, and writes nothing after the Validator's
\* error response.
C8_ValidatorFailureIsTerminal ==
    \A r \in Reqs :
        req[r].validFailed => (req[r].calls = <<>> /\ Len(req[r].resp) = 1)

\* C9: while every request in flight is a fetch that found the cache empty,
\* once the cache holds a host no write changes it, and every create request
\* issued is addressed to that host. The claim is stated for the steps that
\* read and write whole values, for requests the Validator passed and for
\* discoveries that returned a host: a torn read or write, or an empty host
\* stored, is not held against it.
C9_BenignOverwrite ==
    [][((\A r \in Reqs : req[r].kind = "none"
                          \/ (req[r].kind = "fetch" /\ req[r].sawEmpty
                                 /\ ~req[r].emptyNoErr /\ ~req[r].validFailed))
        /\ accessNode \in Hosts /\ accessNode' # Torn) =>
           /\ accessNode' = accessNode
           /\ \A r \in Reqs :
                 Len(req'[r].calls) > Len(req[r].calls) =>
                     LET c == req'[r].calls[Len(req'[r].calls)]
                     IN  (c.kind = "create" /\ c.host # Torn) =>
                             c.host = accessNode
      ]_vars

\* C10: on a freshly started service every decrypt request is addressed to a
\* non-empty access-node host.
C10_DecryptHostResolved ==
    \A r \in Reqs : \A i \in DOMAIN req[r].calls :
        req[r].calls[i].kind = "decrypt" => req[r].calls[i].host # NoHost
====
